---- MODULE Spec2Model ----
(***************************************************************************)
(* The substrate memory model of fluvia: World (src_ti/world.py) and       *)
(* Substrate (coralai/substrate/substrate.py).  Channels are registered    *)
(* by name, malloc plans one contiguous depth range per channel and        *)
(* sub-channel, allocates the buffer and links the channel descriptors to  *)
(* it, and reads and writes go through the index resolver.                 *)
(*                                                                         *)
(* A tensor is modelled by its shape and by one value per depth slot (the  *)
(* (w, h) plane of a slot is treated as one value: every operation of the  *)
(* two classes moves whole planes).  Buffers live in a heap so that the    *)
(* identity of a buffer, separately from its contents, is part of the      *)
(* state.                                                                  *)
(***************************************************************************)
EXTENDS Integers, Sequences, FiniteSets, TLC

\* ---------------------------------------------------------------- bounds
GridW == 2
GridH == 2
MaxReserved == 1
MaxMapLen == 2
MaxVal == 1
\* channels are registered and malloc is tried while no more than this many
\* entries of the index builder are left over from mallocs that failed
MaxStaleInds == 0

\* ------------------------------------------------------------ sequences
RECURSIVE Flatten(_)
Flatten(ss) == IF ss = <<>> THEN <<>> ELSE Head(ss) \o Flatten(Tail(ss))

Range(s) == {s[i] : i \in 1..Len(s)}

\* range(lo, hi) of Python as a sequence
PyRange(lo, hi) == [i \in 1..(hi - lo) |-> lo + i - 1]

Ids(s) == [i \in 1..Len(s) |-> s[i].id]

\* position of id in a sequence of records with an id field, 0 if absent
Pos(s, id) == IF \E i \in 1..Len(s) : s[i].id = id
              THEN CHOOSE i \in 1..Len(s) : s[i].id = id
              ELSE 0

\* ------------------------------------------------------- taichi dtypes
\* ti.f32 and friends: to_torch gives a (w, h) tensor
Scalar == [kind |-> "scalar", n |-> 0, members |-> <<>>]
\* ti.types.vector(n, ...): to_torch gives a (w, h, n) tensor
Vector(n) == [kind |-> "vector", n |-> n, members |-> <<>>]
\* ti.types.matrix(n, n, ...): to_torch gives a (w, h, n, n) tensor
Matrix(n) == [kind |-> "matrix", n |-> n, members |-> <<>>]
\* ti.types.struct(...): to_torch gives a dict of the members' tensors
Struct(ms) == [kind |-> "struct", n |-> 0, members |-> ms]
Member(id, ty) == [id |-> id, ty |-> ty]

DTypes ==
  { Scalar, Vector(2), Matrix(2),
    Struct(<<Member("x", Vector(2)), Member("y", Scalar)>>),
    Struct(<<Member("x", Scalar), Member("y", Matrix(2))>>),
    Struct(<<Member("x", Struct(<<Member("y", Scalar)>>))>>) }

ChIds == {"a", "b"}
SubIds == {"x", "y"}

\* shape of the zero tensor the struct field gives for a non-struct dtype
TorchShape(ty, wh) ==
  CASE ty.kind = "scalar" -> wh
    [] ty.kind = "vector" -> wh \o <<ty.n>>
    [] ty.kind = "matrix" -> wh \o <<ty.n, ty.n>>
    [] OTHER -> <<>>

\* celltype.field(shape).to_torch(): one entry per channel, in the order of
\* the registry; a struct channel gives a dict of its members
TensorDict(chs, wh) ==
  [i \in 1..Len(chs) |->
     [id |-> chs[i].id,
      isTensor |-> chs[i].ti_dtype.kind # "struct",
      shape |-> TorchShape(chs[i].ti_dtype, wh),
      items |-> [j \in 1..Len(chs[i].ti_dtype.members) |->
                   [id |-> chs[i].ti_dtype.members[j].id,
                    isTensor |-> chs[i].ti_dtype.members[j].ty.kind # "struct",
                    shape |-> TorchShape(chs[i].ti_dtype.members[j].ty, wh)]]]]

\* --------------------------------------------------------------- state
VARIABLES
  impl,             \* "World" or "Substrate": the class of the object
  shape,            \* self.shape
  mem,              \* self.mem: 0 is None, else the buffer's place in heap
  heap,             \* the buffers created so far, one value per depth slot
  channels,         \* self.channels: the registry, in insertion order
  indices,          \* self.indices / self.windex: the resolver
  ti_ind_builder,   \* Substrate.ti_ind_builder: the entries added so far
  ti_lims_builder,  \* Substrate.ti_lims_builder
  ti_built,         \* Substrate.ti_indices / ti_lims have been built
  req,              \* the call being made: operation and arguments
  res               \* its outcome: error (or "ok") and returned value

vars == <<impl, shape, mem, heap, channels, indices, ti_ind_builder,
          ti_lims_builder, ti_built, req, res>>

NoLink == [tag |-> "none", inds |-> <<>>]
DefaultLims == <<-1, 1>>

\* Channel.__init__
Channel(id, ty) ==
  [id |-> id, ti_dtype |-> ty, lims |-> DefaultLims, memblock |-> 0,
   indices |-> NoLink, subchids |-> <<>>, subs |-> <<>>]

NoKey == [kind |-> "none", ch |-> "", sub |-> "", subs |-> <<>>, elems |-> <<>>]
NoVal == [shape |-> <<>>, data |-> <<>>]
NoRet == [form |-> "none", shape |-> <<>>, data |-> <<>>]

Req(op) == [op |-> op, chid |-> "", ty |-> Scalar, mapping |-> <<>>,
            key |-> NoKey, val |-> NoVal, flag |-> FALSE]
Res(err) == [err |-> err, ret |-> NoRet]

NoIndex == [built |-> FALSE, index_tree |-> <<>>, does_return_ti |-> FALSE]

\* World.__init__ / Substrate.__init__ with channels=None
Init ==
  /\ impl \in {"World", "Substrate"}
  /\ \E r \in 0..MaxReserved :
       shape = IF r = 0 THEN <<GridW, GridH, 0>> ELSE <<GridW, GridH, r, 0>>
  /\ mem = 0
  /\ heap = <<>>
  /\ channels = <<>>
  /\ indices = NoIndex
  /\ ti_ind_builder = <<>>
  /\ ti_lims_builder = <<>>
  /\ ti_built = FALSE
  /\ req = Req("idle")
  /\ res = Res("ok")

\* Calls are made one at a time: a call is made when none is under way,
\* and its record stays until the caller has taken the outcome.
Idle == req.op = "idle"

Return ==
  /\ ~Idle
  /\ req' = Req("idle")
  /\ res' = Res("ok")
  /\ UNCHANGED <<impl, shape, mem, heap, channels, indices, ti_ind_builder,
                 ti_lims_builder, ti_built>>

\* ------------------------------------------------------------ registry
\* mutant of DictPut: a name that is present is added once more
DictAppend(chs, ch) == Append(chs, ch)

\* self.channels[id] = ch on an insertion-ordered dict: a new name goes to
\* the end, a present name keeps its place and gets the new value
DictPut(chs, ch) ==
  IF Pos(chs, ch.id) > 0 THEN [chs EXCEPT ![Pos(chs, ch.id)] = ch]
  ELSE Append(chs, ch)

FewStaleInds == Len(ti_ind_builder) <= MaxStaleInds \/ mem # 0

\* mutant of add_channel: the check of self.mem is left out
add_channel_unguarded ==
  /\ Idle
  /\ FewStaleInds
  /\ \E id \in ChIds, ty \in DTypes :
    /\ req' = [Req("add_channel") EXCEPT !.chid = id, !.ty = ty]
    /\ res' = Res("ok")
    /\ channels' = DictPut(channels, Channel(id, ty))
    /\ UNCHANGED <<impl, shape, mem, heap, indices, ti_ind_builder,
                   ti_lims_builder, ti_built>>

\* add_channel(id, ti_dtype)
add_channel ==
  /\ Idle
  /\ FewStaleInds
  /\ \E id \in ChIds, ty \in DTypes :
    /\ req' = [Req("add_channel") EXCEPT !.chid = id, !.ty = ty]
    /\ IF mem # 0
       THEN /\ res' = Res("AlreadyAllocated")
            /\ UNCHANGED channels
       ELSE /\ res' = Res("ok")
            /\ channels' = DictPut(channels, Channel(id, ty))
    /\ UNCHANGED <<impl, shape, mem, heap, indices, ti_ind_builder,
                   ti_lims_builder, ti_built>>

\* The values of the mapping given to add_channels: a dtype ("plain"), a
\* dict of keyword arguments ("dict"), or a dict that also names the first
\* positional parameter of add_channel ("dict_with_id"), which Python
\* rejects with a TypeError when the call is made.
EntryKinds == {"plain", "dict", "dict_with_id"}
MapDTypes == {Vector(2)}
Entries == [id : ChIds, ty : MapDTypes, kind : EntryKinds]

Mappings ==
  UNION { {m \in [1..n -> Entries] :
             \A i, j \in 1..n : i # j => m[i].id # m[j].id}
          : n \in 1..MaxMapLen }

\* the loop of add_channels over the entries from the k-th on: it stops
\* at the first entry whose call raises
RECURSIVE AddLoop(_, _, _)
AddLoop(chs, m, k) ==
  IF k > Len(m) THEN [err |-> "ok", channels |-> chs]
  ELSE IF m[k].kind = "dict_with_id"
       THEN [err |-> "TypeError", channels |-> chs]
       ELSE AddLoop(DictPut(chs, Channel(m[k].id, m[k].ty)), m, k + 1)

\* add_channels(mapping)
add_channels ==
  /\ Idle
  /\ FewStaleInds
  /\ \E m \in Mappings :
    /\ req' = [Req("add_channels") EXCEPT !.mapping = m]
    /\ IF mem # 0
       THEN /\ res' = Res("AlreadyAllocated")
            /\ UNCHANGED channels
       ELSE /\ res' = Res(AddLoop(channels, m, 1).err)
            /\ channels' = AddLoop(channels, m, 1).channels
    /\ UNCHANGED <<impl, shape, mem, heap, indices, ti_ind_builder,
                   ti_lims_builder, ti_built>>

\* ------------------------------------------------------ layout planner
\* mutant of check_ch_shape: the trailing dimension is not looked at
check_ch_shape_flat(sh, selfshape) ==
  IF Len(sh) > 3 \/ Len(sh) < 2
  THEN [err |-> "InvalidShape", depth |-> 0]
  ELSE IF SubSeq(sh, 1, 2) # SubSeq(selfshape, 1, 2)
       THEN [err |-> "ShapeMismatch", depth |-> 0]
       ELSE [err |-> "ok", depth |-> 1]

\* check_ch_shape(shape): the channel's depth, or the error it raises
check_ch_shape(sh, selfshape) ==
  IF Len(sh) > 3 \/ Len(sh) < 2
  THEN [err |-> "InvalidShape", depth |-> 0]
  ELSE IF SubSeq(sh, 1, 2) # SubSeq(selfshape, 1, 2)
       THEN [err |-> "ShapeMismatch", depth |-> 0]
       ELSE [err |-> "ok", depth |-> IF Len(sh) = 2 THEN 1 ELSE sh[3]]

\* add_ti_inds(key, inds): add_i for one index, add_nparr_int for several
add_ti_inds(tib, k, inds) ==
  Append(tib, [key |-> k, tag |-> IF Len(inds) = 1 THEN "i" ELSE "nparr",
               inds |-> inds])

\* ti_lims_builder.add_nparr_float(key, lims)
add_lims(til, k, lims) == Append(til, [key |-> k, lims |-> lims])

\* mutant of index_subchannels: a sub-channel is given one slot, whatever
\* its depth
RECURSIVE index_subchannels_oneslot(_, _, _, _, _)
index_subchannels_oneslot(items, k, st, parent, selfshape) ==
  IF k > Len(items) THEN [st EXCEPT !.err = "ok"]
  ELSE IF ~items[k].isTensor THEN [st EXCEPT !.err = "NotATensor"]
  ELSE LET cs == check_ch_shape(items[k].shape, selfshape)
           inds == PyRange(st.ptr, st.ptr + 1)
       IN IF cs.err # "ok" THEN [st EXCEPT !.err = cs.err]
          ELSE index_subchannels_oneslot(items, k + 1,
                 [err |-> "ok",
                  ptr |-> st.ptr + cs.depth,
                  tree |-> Append(st.tree, [id |-> items[k].id,
                                            indices |-> inds]),
                  tib |-> add_ti_inds(st.tib, <<parent.id, items[k].id>>, inds),
                  til |-> add_lims(st.til, <<parent.id, items[k].id>>,
                                   parent.lims)],
                 parent, selfshape)

\* _index_subchannels(subchdict, start_index, parent_chid), from the k-th
\* sub-channel on.  st holds end_index, subch_tree and the two builders.
RECURSIVE index_subchannels(_, _, _, _, _)
index_subchannels(items, k, st, parent, selfshape) ==
  IF k > Len(items) THEN [st EXCEPT !.err = "ok"]
  ELSE IF ~items[k].isTensor THEN [st EXCEPT !.err = "NotATensor"]
  ELSE LET cs == check_ch_shape(items[k].shape, selfshape)
           inds == PyRange(st.ptr, st.ptr + cs.depth)
       IN IF cs.err # "ok" THEN [st EXCEPT !.err = cs.err]
          ELSE index_subchannels(items, k + 1,
                 [err |-> "ok",
                  ptr |-> st.ptr + cs.depth,
                  tree |-> Append(st.tree, [id |-> items[k].id,
                                            indices |-> inds]),
                  tib |-> add_ti_inds(st.tib, <<parent.id, items[k].id>>, inds),
                  til |-> add_lims(st.til, <<parent.id, items[k].id>>,
                                   parent.lims)],
                 parent, selfshape)

\* The loop of malloc over tensor_dict.items(), from the k-th channel on.
\* st holds endlayer_pointer, index_tree and the two builders.
RECURSIVE plan_loop(_, _, _, _, _)
plan_loop(td, k, st, chs, selfshape) ==
  IF k > Len(td) THEN [st EXCEPT !.err = "ok"]
  ELSE IF td[k].isTensor
  THEN LET cs == check_ch_shape(td[k].shape, selfshape)
           inds == PyRange(st.ptr, st.ptr + cs.depth)
       IN IF cs.err # "ok" THEN [st EXCEPT !.err = cs.err]
          ELSE plan_loop(td, k + 1,
                 [err |-> "ok",
                  ptr |-> st.ptr + cs.depth,
                  tree |-> Append(st.tree,
                             [id |-> td[k].id, indices |-> inds,
                              has_sub |-> FALSE, subchannels |-> <<>>]),
                  tib |-> add_ti_inds(st.tib, <<td[k].id>>, inds),
                  til |-> add_lims(st.til, <<td[k].id>>, chs[k].lims)],
                 chs, selfshape)
  ELSE LET sub == index_subchannels(td[k].items, 1,
                    [err |-> "ok", ptr |-> st.ptr, tree |-> <<>>,
                     tib |-> st.tib, til |-> st.til],
                    chs[k], selfshape)
           inds == PyRange(st.ptr, sub.ptr)
       IN IF sub.err # "ok"
          THEN [st EXCEPT !.err = sub.err, !.tib = sub.tib, !.til = sub.til]
          ELSE plan_loop(td, k + 1,
                 [err |-> "ok",
                  ptr |-> sub.ptr,
                  tree |-> Append(st.tree,
                             [id |-> td[k].id, indices |-> inds,
                              has_sub |-> TRUE, subchannels |-> sub.tree]),
                  tib |-> add_ti_inds(sub.tib, <<td[k].id>>, inds),
                  til |-> add_lims(sub.til, <<td[k].id>>, chs[k].lims)],
                 chs, selfshape)

\* the planning part of malloc: tensor_dict, then the loop from
\* endlayer_pointer = self.shape[2]
plan(chs, selfshape, tib, til) ==
  plan_loop(TensorDict(chs, SubSeq(selfshape, 1, 2)), 1,
            [err |-> "ok", ptr |-> selfshape[3], tree |-> <<>>,
             tib |-> tib, til |-> til],
            chs, selfshape)

\* ---------------------------------------------------------- allocator
\* Channel.link_to_mem(indices, memblock)
link_to_mem(ch, inds, b) ==
  [ch EXCEPT !.memblock = b,
             !.indices = [tag |-> IF Len(inds) = 1 THEN "scalar" ELSE "array",
                          inds |-> inds]]

\* Channel.add_subchannel(id, ti_dtype) followed by link_to_mem on the
\* sub-channel it made
add_subchannel(ch, e, b) ==
  [ch EXCEPT !.subchids = Append(@, e.id),
             !.subs = DictPut(@, link_to_mem(
                                   [id |-> e.id, ti_dtype |-> ch.ti_dtype,
                                    lims |-> DefaultLims, memblock |-> 0,
                                    indices |-> NoLink], e.indices, b))]

RECURSIVE add_subchannels(_, _, _, _)
add_subchannels(ch, subtree, k, b) ==
  IF k > Len(subtree) THEN ch
  ELSE add_subchannels(add_subchannel(ch, subtree[k], b), subtree, k + 1, b)

\* _transfer_to_mem, the descriptors: every channel of the tree gets its
\* sub-channels and is linked to the buffer b
transfer_channels(chs, tree, b) ==
  [i \in 1..Len(chs) |->
     LET p == Pos(tree, chs[i].id)
     IN IF p = 0 THEN chs[i]
        ELSE link_to_mem(
               IF tree[p].has_sub
               THEN add_subchannels(chs[i], tree[p].subchannels, 1, b)
               ELSE chs[i],
               tree[p].indices, b)]

\* the slots the tree's channels (through their sub-channels, where they
\* have some) are given
TreeSlots(tree) ==
  UNION { IF tree[i].has_sub
          THEN UNION {Range(tree[i].subchannels[j].indices)
                        : j \in 1..Len(tree[i].subchannels)}
          ELSE Range(tree[i].indices) : i \in 1..Len(tree) }

\* _transfer_to_mem, the buffer: the zero tensors of tensor_dict are copied
\* to the slots of the tree; the other slots keep what the buffer had
transfer_mem(buf, tree) ==
  [i \in 1..Len(buf) |-> IF (i - 1) \in TreeSlots(tree) THEN 0 ELSE buf[i]]

\* values a slot can hold
SlotVals == 0..MaxVal

\* torch.empty((w, h, n)): the slots hold whatever the memory held.  Only
\* the first keep slots are enumerated; the others are the ones malloc
\* overwrites before anything can read them.
TorchEmpty(n, keep) ==
  {[i \in 1..n |-> IF i <= keep THEN g[i] ELSE 0] : g \in [1..keep -> SlotVals]}
\* torch.zeros((w, h, n))
TorchZeros(n) == [i \in 1..n |-> 0]

\* mutant of World.malloc: the check of self.mem is left out
World_malloc_unguarded ==
  /\ Idle
  /\ impl = "World"
  /\ req' = Req("malloc")
  /\ LET pl == plan(channels, shape, <<>>, <<>>)
     IN IF pl.err # "ok"
        THEN /\ res' = Res(pl.err)
             /\ UNCHANGED <<mem, heap, channels, indices>>
        ELSE \E empty \in TorchEmpty(pl.ptr, shape[3]) :
               /\ heap' = <<transfer_mem(empty, pl.tree)>>
               /\ mem' = 1
               /\ channels' = transfer_channels(channels, pl.tree, 1)
               /\ indices' = [built |-> TRUE, index_tree |-> pl.tree,
                              does_return_ti |-> FALSE]
               /\ res' = Res("ok")
  /\ UNCHANGED <<impl, shape, ti_ind_builder, ti_lims_builder, ti_built>>

\* World.malloc
World_malloc ==
  /\ Idle
  /\ impl = "World"
  /\ req' = Req("malloc")
  /\ LET pl == plan(channels, shape, <<>>, <<>>)
     IN IF mem # 0
        THEN /\ res' = Res("AlreadyAllocated")
             /\ UNCHANGED <<mem, heap, channels, indices>>
        ELSE IF pl.err # "ok"
        THEN /\ res' = Res(pl.err)
             /\ UNCHANGED <<mem, heap, channels, indices>>
        ELSE \E empty \in TorchEmpty(pl.ptr, shape[3]) :
               /\ heap' = <<transfer_mem(empty, pl.tree)>>
               /\ mem' = 1
               /\ channels' = transfer_channels(channels, pl.tree, 1)
               /\ indices' = [built |-> TRUE, index_tree |-> pl.tree,
                              does_return_ti |-> FALSE]
               /\ res' = Res("ok")
  /\ UNCHANGED <<impl, shape, ti_ind_builder, ti_lims_builder, ti_built>>

\* mem.permute(2, 0, 1).unsqueeze(0).contiguous() returns mem's own storage,
\* not a copy, when the permuted (d, w, h) tensor is already contiguous:
\* it has no element, or at most one depth slot, or one cell
PermuteIsContiguous(w, h, d) == d <= 1 \/ w * h <= 1

\* Substrate.malloc
Substrate_malloc ==
  /\ Idle
  /\ impl = "Substrate"
  /\ FewStaleInds
  /\ req' = Req("malloc")
  /\ LET pl == plan(channels, shape, ti_ind_builder, ti_lims_builder)
     IN IF mem # 0
        THEN /\ res' = Res("AlreadyAllocated")
             /\ UNCHANGED <<shape, mem, heap, channels, indices,
                            ti_ind_builder, ti_lims_builder, ti_built>>
        ELSE IF pl.err # "ok"
        THEN /\ res' = Res(pl.err)
             /\ ti_ind_builder' = pl.tib
             /\ ti_lims_builder' = pl.til
             /\ UNCHANGED <<shape, mem, heap, channels, indices, ti_built>>
        ELSE LET buf == transfer_mem(TorchZeros(pl.ptr), pl.tree)
             IN /\ channels' = transfer_channels(channels, pl.tree, 1)
                /\ indices' = [built |-> TRUE, index_tree |-> pl.tree,
                               does_return_ti |-> FALSE]
                /\ ti_ind_builder' = pl.tib
                /\ ti_lims_builder' = pl.til
                /\ ti_built' = TRUE
                /\ IF PermuteIsContiguous(shape[1], shape[2], pl.ptr)
                   THEN heap' = <<buf>> /\ mem' = 1
                   ELSE heap' = <<buf, buf>> /\ mem' = 2
                /\ shape' = <<1, pl.ptr, shape[1], shape[2]>>
                /\ res' = Res("ok")
  /\ UNCHANGED impl

malloc == World_malloc \/ Substrate_malloc

\* ------------------------------------------------------ index resolver
NameKey(c) == [NoKey EXCEPT !.kind = "name", !.ch = c]
PairKey(c, sb) == [NoKey EXCEPT !.kind = "pair", !.ch = c, !.sub = sb]
PairListKey(c, ss) == [NoKey EXCEPT !.kind = "pairlist", !.ch = c, !.subs = ss]
ListKey(es) == [NoKey EXCEPT !.kind = "list", !.elems = es]

\* the references the calls are made with: "c" is never registered
NameKeys == {NameKey(c) : c \in ChIds \cup {"c"}}
PairKeys == {PairKey("b", sb) : sb \in SubIds \cup {"z"}}
              \cup {PairKey("a", "x")}
SubLists == {<<"x", "y">>, <<"y", "x">>, <<"y", "y">>}
PairListKeys == {PairListKey("b", ss) : ss \in SubLists}
ListElems == {NameKey(c) : c \in ChIds} \cup {PairKey("b", sb) : sb \in SubIds}
               \cup {PairListKey("b", <<"y", "x">>)}
ListKeys == {ListKey(<<e>>) : e \in ListElems}
              \cup {ListKey(<<e, f>>) : e, f \in ListElems}
Keys == NameKeys \cup PairKeys \cup PairListKeys \cup ListKeys

Found(inds) == [err |-> "ok", inds |-> inds]
KeyError == [err |-> "UnknownChannel", inds |-> <<>>]
UnsupportedIndexMode == [err |-> "UnsupportedIndexMode", inds |-> <<>>]

\* index_tree[chid]['indices']
tree_inds(tree, c) ==
  IF Pos(tree, c) = 0 THEN KeyError ELSE Found(tree[Pos(tree, c)].indices)

\* index_tree[chid]['subchannels'][subchid]['indices']
sub_inds(tree, c, sb) ==
  IF Pos(tree, c) = 0 THEN KeyError
  ELSE IF ~tree[Pos(tree, c)].has_sub THEN KeyError
  ELSE LET st == tree[Pos(tree, c)].subchannels
       IN IF Pos(st, sb) = 0 THEN KeyError ELSE Found(st[Pos(st, sb)].indices)

\* inds += ... for each sub-name of the list, from the k-th on
RECURSIVE sub_list_inds(_, _, _, _, _)
sub_list_inds(tree, c, ss, k, acc) ==
  IF k > Len(ss) THEN Found(acc)
  ELSE LET r == sub_inds(tree, c, ss[k])
       IN IF r.err # "ok" THEN r
          ELSE sub_list_inds(tree, c, ss, k + 1, acc \o r.inds)

\* mutant of _get_tuple_inds: a list of sub-names is resolved whatever
\* the mode is
get_tuple_inds_anymode(idx, k) ==
  IF k.kind = "pairlist"
  THEN sub_list_inds(idx.index_tree, k.ch, k.subs, 1, <<>>)
  ELSE sub_inds(idx.index_tree, k.ch, k.sub)

\* _windex._get_tuple_inds(key_tuple)
get_tuple_inds(idx, k) ==
  IF k.kind = "pairlist"
  THEN IF idx.does_return_ti THEN UnsupportedIndexMode
       ELSE sub_list_inds(idx.index_tree, k.ch, k.subs, 1, <<>>)
  ELSE sub_inds(idx.index_tree, k.ch, k.sub)

\* mutant of the loop of _windex.__getitem__: a tuple in the list is looked
\* up by its channel name alone
RECURSIVE list_inds_names(_, _, _, _)
list_inds_names(idx, es, k, acc) ==
  IF k > Len(es) THEN Found(acc)
  ELSE LET r == tree_inds(idx.index_tree, es[k].ch)
       IN IF r.err # "ok" THEN r
          ELSE list_inds_names(idx, es, k + 1, acc \o r.inds)

\* the loop of _windex.__getitem__ over a list key, from the k-th element on
RECURSIVE list_inds(_, _, _, _)
list_inds(idx, es, k, acc) ==
  IF k > Len(es) THEN Found(acc)
  ELSE LET r == IF es[k].kind \in {"pair", "pairlist"}
                THEN get_tuple_inds(idx, es[k])
                ELSE tree_inds(idx.index_tree, es[k].ch)
       IN IF r.err # "ok" THEN r
          ELSE list_inds(idx, es, k + 1, acc \o r.inds)

\* _windex.__getitem__(key): the error raised, or the indices and the form
\* they are returned in ("ti": the prebuilt taichi field, "np": an array)
windex_getitem(idx, k) ==
  LET r == CASE k.kind \in {"pair", "pairlist"} -> get_tuple_inds(idx, k)
             [] k.kind = "list" ->
                  IF idx.does_return_ti THEN UnsupportedIndexMode
                  ELSE list_inds(idx, k.elems, 1, <<>>)
             [] OTHER -> tree_inds(idx.index_tree, k.ch)
  IN [err |-> r.err, inds |-> r.inds,
      form |-> IF r.err # "ok" THEN "none"
               ELSE IF idx.does_return_ti THEN "ti" ELSE "np"]

\* SubstrateIndex.__getitem__(key): the resolver of Substrate, which has
\* the host form only
SubstrateIndex_getitem(idx, k) ==
  windex_getitem([idx EXCEPT !.does_return_ti = FALSE], k)

\* _windex.return_ti(does_return_ti), called on world.indices
return_ti ==
  /\ Idle
  /\ impl = "World"
  /\ indices.built
  /\ \E b \in BOOLEAN :
       /\ req' = [Req("return_ti") EXCEPT !.flag = b]
       /\ indices' = [indices EXCEPT !.does_return_ti = b]
  /\ res' = Res("ok")
  /\ UNCHANGED <<impl, shape, mem, heap, channels, ti_ind_builder,
                 ti_lims_builder, ti_built>>

\* world.indices[key]
indices_getitem ==
  /\ Idle
  /\ impl = "World"
  /\ indices.built
  /\ \E k \in Keys :
       LET r == windex_getitem(indices, k)
       IN /\ req' = [Req("indices_getitem") EXCEPT !.key = k]
          /\ res' = [err |-> r.err,
                     ret |-> [form |-> r.form, shape |-> <<Len(r.inds)>>,
                              data |-> r.inds]]
  /\ UNCHANGED <<impl, shape, mem, heap, channels, indices, ti_ind_builder,
                 ti_lims_builder, ti_built>>

\* -------------------------------------------------------- view accessor
\* the tensors given to a write: a shape and one value per depth slot
Fill(n, v) == [i \in 1..n |-> v]
Ramp(n) == [i \in 1..n |-> i]
Vals ==
  {[shape |-> <<GridW, GridH>>, data |-> Fill(1, v)] : v \in 1..MaxVal}
    \cup {[shape |-> <<GridW + 1, GridH>>, data |-> Fill(1, 1)],
          [shape |-> <<GridW, GridH, 1>>, data |-> Fill(1, 1)],
          [shape |-> <<GridW, GridH, 2>>, data |-> Fill(2, 1)],
          [shape |-> <<GridW, GridH, 2>>, data |-> Ramp(2)],
          [shape |-> <<GridW, GridH, 3>>, data |-> Ramp(3)]}

\* mem[:, :, inds] with an array of indices: a new tensor holding a copy
\* of the slots, in the order of inds
Gather(buf, inds) == [i \in 1..Len(inds) |-> buf[inds[i] + 1]]

\* value.squeeze(2)
squeeze2(sh) == IF Len(sh) = 3 /\ sh[3] = 1 THEN SubSeq(sh, 1, 2) ELSE sh

\* self.indices.return_ti(False) followed by self.indices[key]
World_lookup(k) == windex_getitem([indices EXCEPT !.does_return_ti = FALSE], k)

\* val = self.mem[:, :, self.indices[key]] of World.__getitem__
World_read(k) ==
  LET r == World_lookup(k)
  IN IF r.err # "ok" THEN Res(r.err)
     ELSE [err |-> "ok",
           ret |-> [form |-> "tensor",
                    shape |-> <<shape[1], shape[2], Len(r.inds)>>,
                    data |-> Gather(heap[mem], r.inds)]]

\* World.__getitem__(key)
World_getitem ==
  /\ Idle
  /\ impl = "World"
  /\ \E k \in Keys :
       /\ req' = [Req("getitem") EXCEPT !.key = k]
       /\ IF mem = 0
          THEN /\ res' = Res("NotAllocated")
               /\ UNCHANGED indices
          ELSE /\ res' = World_read(k)
               /\ IF World_lookup(k).err # "ok"
                  THEN \* the lookup raises before return_ti puts the mode back
                       indices' = [indices EXCEPT !.does_return_ti = FALSE]
                  ELSE UNCHANGED indices
  /\ UNCHANGED <<impl, shape, mem, heap, channels, ti_ind_builder,
                 ti_lims_builder, ti_built>>

\* World.__setitem__(key, value)
World_setitem ==
  /\ Idle
  /\ impl = "World"
  /\ \E k \in Keys, v \in Vals :
       LET r == World_lookup(k)
           n == Len(r.inds)
       IN /\ req' = [Req("setitem") EXCEPT !.key = k, !.val = v]
          /\ IF mem = 0
             THEN /\ res' = Res("NotAllocated")
                  /\ UNCHANGED <<indices, heap>>
             ELSE IF r.err # "ok"
             THEN /\ res' = Res(r.err)
                  /\ indices' = [indices EXCEPT !.does_return_ti = FALSE]
                  /\ UNCHANGED heap
             ELSE IF n > 1
             THEN \* self[key].shape is the shape of a read of the same key;
                  \* mem[:, :, indices] is a copy, and copy_ fills the copy
                  /\ res' = IF v.shape # World_read(k).ret.shape
                            THEN Res("ShapeMismatch") ELSE Res("ok")
                  /\ UNCHANGED <<indices, heap>>
             ELSE IF n = 1
             THEN IF squeeze2(v.shape) # SubSeq(shape, 1, 2)
                  THEN /\ res' = Res("ShapeMismatch")
                       /\ UNCHANGED <<indices, heap>>
                  ELSE \* mem[:, :, indices[0]] is a view of the buffer
                       /\ res' = Res("ok")
                       /\ heap' = [heap EXCEPT ![mem][r.inds[1] + 1] = v.data[1]]
                       /\ UNCHANGED indices
             ELSE /\ res' = Res("ok")
                  /\ UNCHANGED <<indices, heap>>
  /\ UNCHANGED <<impl, shape, mem, channels, ti_ind_builder,
                 ti_lims_builder, ti_built>>

\* val = self.mem[:, self.windex[key], :, :] of Substrate.__getitem__
Substrate_read(k) ==
  LET r == SubstrateIndex_getitem(indices, k)
  IN IF r.err # "ok" THEN Res(r.err)
     ELSE [err |-> "ok",
           ret |-> [form |-> "tensor",
                    shape |-> <<shape[1], Len(r.inds), shape[3], shape[4]>>,
                    data |-> Gather(heap[mem], r.inds)]]

\* Substrate.__getitem__(key)
Substrate_getitem ==
  /\ Idle
  /\ impl = "Substrate"
  /\ \E k \in Keys :
       /\ req' = [Req("getitem") EXCEPT !.key = k]
       /\ res' = IF mem = 0 THEN Res("NotAllocated") ELSE Substrate_read(k)
  /\ UNCHANGED <<impl, shape, mem, heap, channels, indices, ti_ind_builder,
                 ti_lims_builder, ti_built>>

\* mutant of Substrate.__setitem__: the check of self.mem is left out
Substrate_setitem_unguarded ==
  /\ Idle
  /\ impl = "Substrate"
  /\ \E k \in Keys, v \in Vals :
       /\ req' = [Req("setitem") EXCEPT !.key = k, !.val = v]
       /\ res' = Res("NotImplemented")
  /\ UNCHANGED <<impl, shape, mem, heap, channels, indices, ti_ind_builder,
                 ti_lims_builder, ti_built>>

\* Substrate.__setitem__(key, value)
Substrate_setitem ==
  /\ Idle
  /\ impl = "Substrate"
  /\ \E k \in Keys, v \in Vals :
       /\ req' = [Req("setitem") EXCEPT !.key = k, !.val = v]
       /\ res' = IF mem = 0 THEN Res("NotAllocated")
                 ELSE Res("NotImplemented")
  /\ UNCHANGED <<impl, shape, mem, heap, channels, indices, ti_ind_builder,
                 ti_lims_builder, ti_built>>

getitem == World_getitem \/ Substrate_getitem
setitem == World_setitem \/ Substrate_setitem

Next ==
  \/ add_channel
  \/ add_channels
  \/ malloc
  \/ return_ti
  \/ indices_getitem
  \/ getitem
  \/ setitem
  \/ Return

Spec == Init /\ [][Next]_vars

\* ================================================================ claims
Allocated == mem # 0
Tree == indices.index_tree
\* the depth of the buffer reads and writes operate on
TotalDepth == Len(heap[mem])

RECURSIVE SumSeq(_)
SumSeq(q) == IF q = <<>> THEN 0 ELSE Head(q) + SumSeq(Tail(q))

\* the depth a tensor of a dtype takes: the trailing dimension of a 3-D
\* shape, 1 for a 2-D shape
TensorDepth(ty) == IF ty.kind = "vector" THEN ty.n ELSE 1
\* the depth of a channel: of its tensor, or of its sub-channels' together
DeclaredDepth(ty) ==
  IF ty.kind = "struct"
  THEN SumSeq([j \in 1..Len(ty.members) |-> TensorDepth(ty.members[j].ty)])
  ELSE TensorDepth(ty)

MallocSucceeds == req'.op = "malloc" /\ res'.err = "ok"

\* C1: a malloc that succeeds gives the top-level channels, in registration
\* order, offset ranges that are pairwise disjoint and that concatenated are
\* exactly reserved_prefix_depth .. total_depth - 1, and the channels'
\* depths sum to total_depth - reserved_prefix_depth.
C1_LayoutCovers ==
  [][MallocSucceeds =>
       LET tree == indices'.index_tree
           total == Len(heap'[mem'])
       IN /\ Ids(tree) = Ids(channels)
          /\ Flatten([i \in 1..Len(tree) |-> tree[i].indices])
               = PyRange(shape[3], total)
          /\ \A i, j \in 1..Len(tree) :
               i # j => Range(tree[i].indices) \cap Range(tree[j].indices) = {}
          /\ SumSeq([i \in 1..Len(channels) |->
                       DeclaredDepth(channels[i].ti_dtype)]) = total - shape[3]
          /\ \A i \in 1..Len(tree) :
               Len(tree[i].indices) = DeclaredDepth(channels[i].ti_dtype)]_vars

\* C1 witness: a world with a reserved slot, a 2-D channel and a channel of
\* sub-channels has been allocated
C1_Witness ==
  /\ req.op = "malloc" /\ res.err = "ok"
  /\ Len(Tree) = 2
  /\ Tree[1].indices = <<1>>
  /\ Tree[2].has_sub
  /\ Tree[2].indices = <<2, 3, 4>>

C3_FrozenAfterMalloc ==
  [][Allocated =>
       /\ Ids(channels') = Ids(channels)
       /\ (req'.op \in {"add_channel", "add_channels"}
             => res'.err = "AlreadyAllocated" /\ channels' = channels)]_vars

\* C3 witness: add_channels with two entries was refused on an allocated
\* object
C3_Witness ==
  /\ Allocated
  /\ req.op = "add_channels" /\ res.err = "AlreadyAllocated"
  /\ Len(req.mapping) = 2

\* C4: once allocated the object stays allocated, and a later malloc fails
\* with AlreadyAllocated and leaves the buffer, its depth and the index tree
\* as they were.
C4_MallocOnce ==
  [][Allocated =>
       /\ mem' # 0
       /\ (req'.op = "malloc"
             => /\ res'.err = "AlreadyAllocated"
                /\ mem' = mem /\ heap' = heap /\ shape' = shape
                /\ indices' = indices /\ channels' = channels)]_vars

\* C4 witness: a second malloc was refused on an object with channels
C4_Witness ==
  /\ Allocated
  /\ req.op = "malloc" /\ res.err = "AlreadyAllocated"
  /\ TotalDepth >= 2

\* C5: before allocation every read and every write fails with
\* NotAllocated and changes nothing.
C5_NotAllocated ==
  [][(~Allocated /\ req'.op \in {"getitem", "setitem"})
       => /\ res'.err = "NotAllocated"
          /\ UNCHANGED <<impl, shape, mem, heap, channels, indices,
                         ti_ind_builder, ti_lims_builder, ti_built>>]_vars

\* C5 witness: a write to a registered channel was refused before malloc
C5_Witness ==
  /\ ~Allocated
  /\ req.op = "setitem" /\ res.err = "NotAllocated"
  /\ Pos(channels, req.key.ch) > 0

NoDup(q) == \A i, j \in 1..Len(q) : i # j => q[i] # q[j]

\* the shape a write to n slots expects: (w, h, n), or (w, h) too for one
ExpectedShape(v, n) ==
  \/ v.shape = <<shape[1], shape[2], n>>
  \/ n = 1 /\ v.shape = <<shape[1], shape[2]>>

\* C6 as stated, for World, whose write policy the specification adopts:
\* after a write of a value of the expected shape to a reference that
\* resolves (to distinct slots), the write has succeeded and a read of the
\* same reference returns the value.
C6_RoundTrip ==
  (/\ impl = "World" /\ Allocated
   /\ req.op = "setitem"
   /\ World_lookup(req.key).err = "ok"
   /\ NoDup(World_lookup(req.key).inds)
   /\ ExpectedShape(req.val, Len(World_lookup(req.key).inds)))
    => (res.err = "ok" /\ World_read(req.key).ret.data = req.val.data)

\* C7: in host mode the indices of a list reference are the indices of its
\* elements, each resolved on its own, one after the other in list order;
\* the list fails when one of its elements does.
C7_OrderPreserved ==
  (req.op = "indices_getitem" /\ ~indices.does_return_ti
   /\ req.key.kind = "list")
    => LET each == [i \in 1..Len(req.key.elems) |->
                      windex_getitem(indices, req.key.elems[i])]
       IN IF \A i \in 1..Len(each) : each[i].err = "ok"
          THEN /\ res.err = "ok"
               /\ res.ret.form = "np"
               /\ res.ret.data = Flatten([i \in 1..Len(each) |-> each[i].inds])
          ELSE res.err # "ok"

\* C7 witness: a list of a (name, list of sub-names) pair and a name was
\* resolved in host mode to indices that are not ascending
C7_Witness ==
  /\ req.op = "indices_getitem" /\ res.err = "ok"
  /\ ~indices.does_return_ti
  /\ req.key.kind = "list" /\ Len(req.key.elems) = 2
  /\ req.key.elems[1].kind = "pairlist"
  /\ req.key.elems[2].kind = "name"
  /\ res.ret.data = <<3, 1, 2, 0>>

C9_LinkedToTheBuffer ==
  Allocated =>
    /\ Len(channels) = Len(Tree)
    /\ \A i \in 1..Len(Tree) :
         /\ channels[i].id = Tree[i].id
         /\ channels[i].memblock = mem
         /\ channels[i].indices.inds = Tree[i].indices
         /\ Ids(channels[i].subs) = Ids(Tree[i].subchannels)
         /\ \A j \in 1..Len(Tree[i].subchannels) :
              /\ channels[i].subs[j].memblock = mem
              /\ channels[i].subs[j].indices.inds
                   = Tree[i].subchannels[j].indices

\* C10 as stated, for World: a write that succeeds puts the value in the
\* slots the reference resolves to (distinct slots) and leaves every other
\* slot of the buffer as it was.
C10_WriteFrame ==
  [][(/\ impl = "World" /\ Allocated
      /\ req'.op = "setitem" /\ res'.err = "ok"
      /\ NoDup(World_lookup(req'.key).inds))
       => LET inds == World_lookup(req'.key).inds
          IN /\ mem' = mem
             /\ \A i \in 1..Len(inds) :
                  heap'[mem][inds[i] + 1] = req'.val.data[i]
             /\ \A sl \in 0..(TotalDepth - 1) :
                  sl \notin Range(inds)
                    => heap'[mem][sl + 1] = heap[mem][sl + 1]]_vars

\* the names of a mapping that the registry chs does not hold, in the
\* mapping's order
RECURSIVE NewNames(_, _, _)
NewNames(chs, m, k) ==
  IF k > Len(m) THEN <<>>
  ELSE (IF Pos(chs, m[k].id) = 0 THEN <<m[k].id>> ELSE <<>>)
         \o NewNames(chs, m, k + 1)

\* C11 as stated: add_channels is all-or-nothing.  A call in which an entry
\* fails leaves the registry equal to the registry before the call; a call
\* in which no entry fails registers every entry, the new names in the
\* mapping's iteration order.
C11_AllOrNothing ==
  [][req'.op = "add_channels" =>
       /\ res'.err # "ok" => channels' = channels
       /\ res'.err = "ok" =>
            /\ Ids(channels') = Ids(channels) \o NewNames(channels, req'.mapping, 1)
            /\ \A i \in 1..Len(req'.mapping) :
                 LET e == req'.mapping[i]
                 IN channels'[Pos(channels', e.id)] = Channel(e.id, e.ty)]_vars

\* C12: a malloc that succeeds gives the sub-channels of a channel, in the
\* sub-channels' insertion order, contiguous runs of their depths: the first
\* starts at the parent's first slot, each other one right after the one
\* before, and the parent's range is the runs one after the other.
C12_SubchannelLayout ==
  [][MallocSucceeds =>
       LET tree == indices'.index_tree
       IN \A i \in 1..Len(tree) :
            LET ms == channels[i].ti_dtype.members
                sub == tree[i].subchannels
            IN tree[i].has_sub =>
                 /\ channels[i].ti_dtype.kind = "struct"
                 /\ Ids(sub) = Ids(ms)
                 /\ \A j \in 1..Len(sub) :
                      LET start == IF j = 1 THEN tree[i].indices[1]
                                   ELSE sub[j - 1].indices[Len(sub[j - 1].indices)] + 1
                      IN sub[j].indices
                           = PyRange(start, start + TensorDepth(ms[j].ty))
                 /\ tree[i].indices
                      = Flatten([j \in 1..Len(sub) |-> sub[j].indices])]_vars

\* C12 witness: a (no reserved slot), then b with x of depth 2 and y of
\* depth 1, allocated: a = [0], b = [1,2,3], b.x = [1,2], b.y = [3], depth 4
C12_Witness ==
  /\ req.op = "malloc" /\ res.err = "ok"
  /\ Len(Tree) = 2
  /\ Tree[1].id = "a" /\ Tree[1].indices = <<0>> /\ ~Tree[1].has_sub
  /\ Tree[2].id = "b" /\ Tree[2].indices = <<1, 2, 3>> /\ Tree[2].has_sub
  /\ Ids(Tree[2].subchannels) = <<"x", "y">>
  /\ Tree[2].subchannels[1].indices = <<1, 2>>
  /\ Tree[2].subchannels[2].indices = <<3>>
  /\ TotalDepth = 4

\* C13 as stated: a malloc that fails because a channel's shape is not 2-
\* or 3-dimensional has changed nothing: no index-tree entry, no device
\* index entry, no depth counter, and the memory is still unallocated.
C13_InvalidShapeNoChange ==
  [][req'.op = "malloc" /\ res'.err = "InvalidShape" =>
       /\ mem' = 0
       /\ UNCHANGED <<shape, mem, heap, channels, indices, ti_ind_builder,
                      ti_lims_builder, ti_built>>]_vars

\* C14 as stated: every read and every write on an allocated world, a
\* failing one included, leaves the resolver's mode flag equal to its value
\* before the call.
C14_ModeFlagRestored ==
  [][(/\ impl = "World" /\ Allocated
      /\ req'.op \in {"getitem", "setitem"})
       => indices'.does_return_ti = indices.does_return_ti]_vars

====
